---------------------------- MODULE Spec2Model ----------------------------
(***************************************************************************)
(* The speed server of server/src/speed.rs: one handle_client task per     *)
(* accepted connection, the unbounded mpsc channel of MessageType values,  *)
(* and the run_server task that owns the cameras, dispatchers, sockets and *)
(* heartbeats maps, with the heartbeat tasks it spawns (Spec, LiveSpec);    *)
(* the deserializer that server_macros/src/lib.rs derives for the          *)
(* Dispatcher packet, byte by byte (SpecCodec); the chat server of         *)
(* src/chat.rs, its handle_client tasks and the start_server task that     *)
(* owns users (SpecChat); and the key-value service of src/unusual.rs, its *)
(* receive loop and the run_server task that owns DATA (SpecKv).           *)
(***************************************************************************)
EXTENDS Integers, Sequences, FiniteSets

(* ------------------------------ bounds --------------------------------- *)

\* Connections the listener accepts in a run (each has its own SocketAddr).
NumConns == 3
\* Connections accepted in a run of the "free" scope.
NumFree == 2
\* Frames one connection's read loop reads in a run of the "free" scope.
MaxFrames == 3
\* Frames read over all connections in a run of the "free" scope.
MaxTotal == 3

Conns == 1 .. NumConns

\* Connections the chat listener accepts in a run.
NumChat == 2
\* Lines read over all chat connections in a run.
MaxLines == 3

ChatConns == 1 .. NumChat

\* Clients (source addresses) of the key-value service in a run.
NumKv == 2
\* Datagrams the key-value service receives in a run.
MaxDatagrams == 3

KvClients == 1 .. NumKv

(* --------------------------- wire constants ---------------------------- *)

\* #[opcode = ..] of every packet struct.
OPCODE_Error == 16
OPCODE_Plate == 32
OPCODE_Ticket == 33
OPCODE_WantHeartBeat == 64
OPCODE_HeartBeat == 65
OPCODE_Camera == 128
OPCODE_Dispatcher == 129

\* The ticket's speed field is a u16, in 100x miles per hour.
U16 == 65536

(* ------------------------- packets and messages ------------------------ *)

PlatePacket(plate, timestamp) ==
  [opcode |-> OPCODE_Plate, plate |-> plate, timestamp |-> timestamp]

Camera(road, mile, limit) ==
  [opcode |-> OPCODE_Camera, road |-> road, mile |-> mile, limit |-> limit]

Dispatcher(roads) ==
  [opcode |-> OPCODE_Dispatcher, numroads |-> Len(roads), roads |-> roads]

WantHeartBeatPacket(interval) ==
  [opcode |-> OPCODE_WantHeartBeat, interval |-> interval]

ErrorPacket(message) == [opcode |-> OPCODE_Error, message |-> message]

HeartBeatPacket == [opcode |-> OPCODE_HeartBeat]

TicketPacket(plate, road, mile1, timestamp1, mile2, timestamp2, speed) ==
  [opcode |-> OPCODE_Ticket, plate |-> plate, road |-> road, mile1 |-> mile1,
   timestamp1 |-> timestamp1, mile2 |-> mile2, timestamp2 |-> timestamp2,
   speed |-> speed]

\* The opcodes handle_client's match has an arm for.
ClientOpcodes == {OPCODE_Plate, OPCODE_Camera, OPCODE_Dispatcher, OPCODE_WantHeartBeat}

\* Bytes a client sends as an opcode that have no arm.
OtherOpcodes == {0}

\* What the read loop notes when an opcode had an arm and deserialize failed,
\* and when the opcode had no arm.
DeserializeFailed(n) == [opcode |-> n, err |-> "deserialize"]
Unknown(n) == [opcode |-> n, err |-> "unknown"]

IsPacket(f, n) == f.opcode = n /\ "err" \notin DOMAIN f

\* An absent entry of a HashMap.
NoPacket == [opcode |-> 0]

\* enum MessageType: what travels on the channel to run_server.
ClientConnected(addr) == [type |-> "ClientConnected", addr |-> addr]
ClientDisconnected(addr) == [type |-> "ClientDisconnected", addr |-> addr]
Plate(addr, packet) == [type |-> "Plate", addr |-> addr, packet |-> packet]
WantHeartBeat(addr, packet) == [type |-> "WantHeartBeat", addr |-> addr, packet |-> packet]
IAmCamera(addr, packet) == [type |-> "IAmCamera", addr |-> addr, packet |-> packet]
IAmDispatcher(addr, packet) == [type |-> "IAmDispatcher", addr |-> addr, packet |-> packet]

(* ------------------------------ inputs ---------------------------------- *)

\* What the clients send is bounded in one of two ways, fixed at the start of a
\* run. "free": NumFree connections send up to MaxTotal frames, each any of
\* FreeFrames, in any order. "example": NumConns connections follow Script,
\* each may stop at any point. The server's code is the same in both.

\* What a client may send next in the "free" scope: any of these, in any order.
FreeFrames ==
  {PlatePacket("ABC", 0)}
  \cup {Camera(5, 0, 60), Camera(5, 1, 60)}
  \cup {Dispatcher(<<5>>), Dispatcher(<<5, 6>>)}
  \cup {WantHeartBeatPacket(0), WantHeartBeatPacket(10)}
  \cup {DeserializeFailed(OPCODE_Plate)}
  \cup {Unknown(n) : n \in OtherOpcodes}

\* The "example" scope: two cameras on road 5, one mile apart, see plate ABC
\* (50 or 60 seconds apart), and a third connection is a dispatcher for road 5.
\* Script[addr][k] is what connection addr may send as its k-th frame.
Script ==
  << << {Camera(5, 0, 60)}, {PlatePacket("ABC", 0)} >>,
     << {Camera(5, 1, 60)}, {PlatePacket("ABC", 50), PlatePacket("ABC", 60)} >>,
     << {Dispatcher(<<5>>)} >> >>

ScriptOf(addr) == IF addr \in DOMAIN Script THEN Script[addr] ELSE <<>>

(* ------------------------------- state ---------------------------------- *)

VARIABLES
  scope,       \* the clients of this run: "free" or "example" (see inputs)
  pc,          \* handle_client of each connection: "idle" (not accepted), "loop", "done"
  hist,        \* what each connection's read loop has read so far, in order
  arrivals,    \* the connections of the frames read so far, in the order read
  chan,        \* the unbounded channel from the handle_client tasks to run_server
  coreAlive,   \* whether the run_server task is still running
  cameras,     \* run_server: addr -> Camera
  dispatchers, \* run_server: addr -> Dispatcher
  sockets,     \* run_server: the addrs whose write half it holds
  heartbeats,  \* run_server: the addrs with a heartbeat JoinHandle
  hbSpawned,   \* heartbeat tasks spawned for each addr so far
  hbRunning,   \* heartbeat tasks of each addr that were spawned and have not ended
  written,     \* the frames written to each connection's socket, in order
  wire,        \* codec: the IAmDispatcher frame a client put on the wire, and what follows it
  stream,      \* codec: the bytes of the connection that have not been read yet
  decoded,     \* codec: what Dispatcher::deserialize returned, once it has
  nextOp,      \* codec: the byte the read loop took as the next opcode, once it has
  users,       \* chat, start_server: addr -> User (username, state of the write half)
  chatChan,    \* chat: the unbounded channel from the handle_client tasks to start_server
  chatPc,      \* chat, handle_client of each connection: "idle", "loop", "done"
  chatAlive,   \* chat: whether the start_server task is still running
  out,         \* chat: what start_server has written to each connection, in order
  lines,       \* chat: the lines each connection's read loop has read, in order
  rejected,    \* chat: the connections that had a username line rejected
  DATA,        \* key-value: the store, key -> value
  kvChan,      \* key-value: the unbounded channel from run_unusual to run_server
  received,    \* key-value: the datagrams recv_from has returned, in order
  kvDone,      \* key-value: how many messages run_server has taken off the channel
  replies      \* key-value: the datagrams sent with send_to, in order

serverVars ==
  <<scope, pc, hist, arrivals, chan, coreAlive, cameras, dispatchers, sockets, heartbeats,
    hbSpawned, hbRunning, written>>

codecVars == <<wire, stream, decoded, nextOp>>

chatVars == <<users, chatChan, chatPc, chatAlive, out, lines, rejected>>

kvVars == <<DATA, kvChan, received, kvDone, replies>>

vars == <<serverVars, codecVars, chatVars, kvVars>>

clientVars == <<scope, pc, hist, arrivals>>
coreVars ==
  <<coreAlive, cameras, dispatchers, sockets, heartbeats, hbSpawned, hbRunning>>

TotalFrames == Len(arrivals)

\* A channel that hands the newest message out first.
SendFront(m) == IF coreAlive THEN <<m>> \o chan ELSE chan

\* tx.send: the message is queued while the receiver lives; once run_server is
\* gone the send fails, the result is ignored and the message is dropped.
Send(m) == IF coreAlive THEN Append(chan, m) ELSE chan

\* Nothing has been deserialized or read yet.
NotYet == [ok |-> FALSE, err |-> "not yet"]

\* The byte-level reader is not part of a run of the server tasks.
CodecIdle ==
  /\ wire = [roads |-> <<>>, rest |-> <<>>]
  /\ stream = <<>>
  /\ decoded = NotYet
  /\ nextOp = NotYet

\* The chat server is not part of a run of the speed server or of the reader:
\* no connection, no user, start_server running.
ChatIdle ==
  /\ users = <<>>
  /\ chatChan = <<>>
  /\ chatPc = [c \in ChatConns |-> "idle"]
  /\ chatAlive = TRUE
  /\ out = [c \in ChatConns |-> <<>>]
  /\ lines = [c \in ChatConns |-> <<>>]
  /\ rejected = {}

\* Nor is the key-value service: empty store, nothing received.
KvIdle ==
  /\ DATA = <<>>
  /\ kvChan = <<>>
  /\ received = <<>>
  /\ kvDone = 0
  /\ replies = <<>>

\* No connection yet, empty maps, run_server running.
ServerIdle ==
  /\ pc = [c \in Conns |-> "idle"]
  /\ hist = [c \in Conns |-> <<>>]
  /\ arrivals = <<>>
  /\ chan = <<>>
  /\ coreAlive = TRUE
  /\ cameras = [c \in Conns |-> NoPacket]
  /\ dispatchers = [c \in Conns |-> NoPacket]
  /\ sockets = {}
  /\ heartbeats = {}
  /\ hbSpawned = [c \in Conns |-> 0]
  /\ hbRunning = [c \in Conns |-> 0]
  /\ written = [c \in Conns |-> <<>>]

Init ==
  /\ scope \in {"free", "example"}
  /\ ServerIdle
  /\ CodecIdle
  /\ ChatIdle
  /\ KvIdle

(* --------------------------- handle_client ------------------------------ *)

\* run_speed accepts a connection and spawns handle_client, which splits the
\* stream and sends ClientConnected with the write half.
Accept(addr) ==
  /\ pc[addr] = "idle"
  /\ scope = "free" => addr <= NumFree
  /\ pc' = [pc EXCEPT ![addr] = "loop"]
  /\ chan' = Send(ClientConnected(addr))
  /\ UNCHANGED <<codecVars, chatVars, kvVars, scope, hist, arrivals, coreVars, written>>

\* The read loop of addr is waiting and f is within the inputs of this run.
CanRead(addr, f) ==
  /\ pc[addr] = "loop"
  /\ IF scope = "free"
       THEN /\ f \in FreeFrames
            /\ Len(hist[addr]) < MaxFrames
            /\ TotalFrames < MaxTotal
       ELSE /\ Len(hist[addr]) < Len(ScriptOf(addr))
            /\ f \in ScriptOf(addr)[Len(hist[addr]) + 1]

AllFrames ==
  FreeFrames
  \cup UNION {UNION {ScriptOf(c)[k] : k \in DOMAIN ScriptOf(c)} : c \in Conns}

FramesOf(n) == {f \in AllFrames : IsPacket(f, n)}

\* An opcode with an arm was read and its packet deserialized: the message is
\* sent and the loop goes on, whatever the connection sent before.
Forward(addr, packet, msg) ==
  /\ CanRead(addr, packet)
  /\ hist' = [hist EXCEPT ![addr] = Append(@, packet)]
  /\ arrivals' = Append(arrivals, addr)
  /\ chan' = Send(msg)
  /\ UNCHANGED <<codecVars, chatVars, kvVars, scope, pc, coreVars, written>>

RecvPlate(addr) ==
  \E packet \in FramesOf(OPCODE_Plate) : Forward(addr, packet, Plate(addr, packet))

RecvCamera(addr) ==
  \E packet \in FramesOf(OPCODE_Camera) : Forward(addr, packet, IAmCamera(addr, packet))

RecvDispatcher(addr) ==
  \E packet \in FramesOf(OPCODE_Dispatcher) :
    Forward(addr, packet, IAmDispatcher(addr, packet))

RecvWantHeartBeat(addr) ==
  \E packet \in FramesOf(OPCODE_WantHeartBeat) :
    Forward(addr, packet, WantHeartBeat(addr, packet))

\* An opcode with an arm was read but deserialize returned Err: logged, nothing
\* is sent, and the loop goes on with the next byte.
DeserializeError(addr) ==
  \E n \in ClientOpcodes :
    /\ CanRead(addr, DeserializeFailed(n))
    /\ hist' = [hist EXCEPT ![addr] = Append(@, DeserializeFailed(n))]
    /\ arrivals' = Append(arrivals, addr)
    /\ UNCHANGED <<codecVars, chatVars, kvVars, scope, pc, chan, coreVars, written>>

\* read_u8 returned Err (end of stream or a read error): ClientDisconnected is
\* sent and the loop ends.
ReadError(addr) ==
  /\ pc[addr] = "loop"
  /\ pc' = [pc EXCEPT ![addr] = "done"]
  /\ chan' = Send(ClientDisconnected(addr))
  /\ UNCHANGED <<codecVars, chatVars, kvVars, scope, hist, arrivals, coreVars, written>>

\* A byte that is no client opcode: logged, break. Nothing is sent on the
\* channel and nothing is written to the socket.
UnknownOpcode(addr) ==
  \E n \in OtherOpcodes :
    /\ CanRead(addr, Unknown(n))
    /\ n \notin ClientOpcodes
    /\ pc' = [pc EXCEPT ![addr] = "done"]
    /\ hist' = [hist EXCEPT ![addr] = Append(@, Unknown(n))]
    /\ arrivals' = Append(arrivals, addr)
    /\ UNCHANGED <<codecVars, chatVars, kvVars, scope, chan, coreVars, written>>

handle_client(addr) ==
  \/ Accept(addr)
  \/ RecvPlate(addr)
  \/ RecvCamera(addr)
  \/ RecvDispatcher(addr)
  \/ RecvWantHeartBeat(addr)
  \/ DeserializeError(addr)
  \/ ReadError(addr)
  \/ UnknownOpcode(addr)

(* ----------------------------- run_server ------------------------------- *)

\* rx.recv() returns the oldest message. (It never returns None: run_speed keeps
\* its sender for as long as the process runs.)
Recv(type) ==
  /\ coreAlive
  /\ chan # <<>>
  /\ Head(chan).type = type
  /\ chan' = Tail(chan)

OnClientConnected ==
  /\ Recv("ClientConnected")
  /\ sockets' = sockets \cup {Head(chan).addr}
  /\ UNCHANGED <<codecVars, chatVars, kvVars, clientVars, coreAlive, cameras, dispatchers, heartbeats,
                 hbSpawned, hbRunning, written>>

\* A disconnect arm that drops the write half and forgets the registrations.
OnClientDisconnectedSocketOnly ==
  /\ Recv("ClientDisconnected")
  /\ sockets' = sockets \ {Head(chan).addr}
  /\ UNCHANGED <<codecVars, chatVars, kvVars, clientVars, coreAlive, cameras, dispatchers, heartbeats,
                 hbSpawned, hbRunning, written>>

OnClientDisconnected ==
  /\ Recv("ClientDisconnected")
  /\ sockets' = sockets \ {Head(chan).addr}
  /\ cameras' = [cameras EXCEPT ![Head(chan).addr] = NoPacket]
  /\ dispatchers' = [dispatchers EXCEPT ![Head(chan).addr] = NoPacket]
  /\ UNCHANGED <<codecVars, chatVars, kvVars, clientVars, coreAlive, heartbeats, hbSpawned, hbRunning, written>>

\* dispatchers.insert: a new entry, or the old one replaced. Nothing is written.
OnIAmDispatcher ==
  /\ Recv("IAmDispatcher")
  /\ dispatchers' = [dispatchers EXCEPT ![Head(chan).addr] = Head(chan).packet]
  /\ UNCHANGED <<codecVars, chatVars, kvVars, clientVars, coreAlive, cameras, sockets, heartbeats,
                 hbSpawned, hbRunning, written>>

\* cameras.insert: a new entry, or the old one replaced.
OnIAmCamera ==
  /\ Recv("IAmCamera")
  /\ cameras' = [cameras EXCEPT ![Head(chan).addr] = Head(chan).packet]
  /\ UNCHANGED <<codecVars, chatVars, kvVars, clientVars, coreAlive, dispatchers, sockets, heartbeats,
                 hbSpawned, hbRunning, written>>

\* todo!(): the run_server task panics; the runtime catches the panic and the
\* other tasks go on. The task's maps and the receiver are dropped with it, and
\* with the receiver every message still queued.
OnPlate ==
  /\ coreAlive
  /\ chan # <<>>
  /\ Head(chan).type = "Plate"
  /\ coreAlive' = FALSE
  /\ chan' = <<>>
  /\ cameras' = [c \in Conns |-> NoPacket]
  /\ dispatchers' = [c \in Conns |-> NoPacket]
  /\ sockets' = {}
  /\ heartbeats' = {}
  /\ UNCHANGED <<codecVars, chatVars, kvVars, clientVars, hbSpawned, hbRunning, written>>

\* A heartbeat task that writes one Heartbeat frame before it ends.
handle_heartbeat_once(addr) == <<HeartBeatPacket>>

\* The frames a heartbeat task writes to its connection: its body is empty.
handle_heartbeat(addr) == <<>>

\* tokio::spawn(handle_heartbeat(write.clone())) for a connection in sockets,
\* whatever the interval and whether or not one was spawned before; the handle
\* replaces the old one in heartbeats. The task runs on its own from here on.
OnWantHeartBeat ==
  /\ Recv("WantHeartBeat")
  /\ IF Head(chan).addr \in sockets
       THEN /\ heartbeats' = heartbeats \cup {Head(chan).addr}
            /\ hbSpawned' = [hbSpawned EXCEPT ![Head(chan).addr] = @ + 1]
            /\ hbRunning' = [hbRunning EXCEPT ![Head(chan).addr] = @ + 1]
       ELSE UNCHANGED <<heartbeats, hbSpawned, hbRunning>>
  /\ UNCHANGED <<codecVars, chatVars, kvVars, clientVars, coreAlive, cameras, dispatchers, sockets, written>>

\* A spawned heartbeat task is scheduled: it writes what handle_heartbeat
\* writes and ends, which drops its clone of the write half. Nothing cancels it
\* before that, and the panic of run_server does not touch it.
HeartbeatTask(addr) ==
  /\ hbRunning[addr] > 0
  /\ hbRunning' = [hbRunning EXCEPT ![addr] = @ - 1]
  /\ written' = [written EXCEPT ![addr] = @ \o handle_heartbeat(addr)]
  /\ UNCHANGED <<codecVars, chatVars, kvVars, clientVars, chan, coreAlive, cameras, dispatchers, sockets,
                 heartbeats, hbSpawned>>

run_server ==
  \/ OnClientConnected
  \/ OnClientDisconnected
  \/ OnIAmDispatcher
  \/ OnIAmCamera
  \/ OnPlate
  \/ OnWantHeartBeat

Next ==
  \/ \E addr \in Conns : handle_client(addr)
  \/ run_server
  \/ \E addr \in Conns : HeartbeatTask(addr)

Spec == Init /\ [][Next]_vars

\* The tokio runtime runs every task that is ready: run_server takes the next
\* message whenever one waits, and a spawned heartbeat task gets to run. What
\* the clients send, and when, is up to them.
LiveSpec ==
  /\ Spec
  /\ WF_vars(run_server)
  /\ \A addr \in Conns : WF_vars(HeartbeatTask(addr))

(* ------------------- derive(Packet): bytes to packets ------------------- *)

\* Most road ids in one IAmDispatcher frame a client sends.
MaxRoads == 2

\* The road ids a client lists: one-byte and two-byte values.
RoadIds == {5, 6, 258, 513}

\* A u16 and a u32 on the wire, big-endian.
RECURSIVE to_be_bytes(_, _)
to_be_bytes(x, size) ==
  IF size = 0 THEN <<>> ELSE Append(to_be_bytes(x \div 256, size - 1), x % 256)

RECURSIVE from_be_bytes(_)
from_be_bytes(b) ==
  IF b = <<>> THEN 0
  ELSE from_be_bytes(SubSeq(b, 1, Len(b) - 1)) * 256 + b[Len(b)]

\* reader.read_exact(&mut buf) for a buf of n bytes, on the unread bytes s of a
\* connection that ends after them: the next n bytes, or UnexpectedEof.
read_exact(s, n) ==
  IF Len(s) >= n
    THEN [ok |-> TRUE, value |-> SubSeq(s, 1, n), rest |-> SubSeq(s, n + 1, Len(s))]
    ELSE [ok |-> FALSE, err |-> "eof"]

chunks_exact(buf, size) ==
  [i \in 1 .. (Len(buf) \div size) |-> SubSeq(buf, (i - 1) * size + 1, i * size)]

\* What the derive generates for an integer field of size bytes.
deserialize_int(s, size) ==
  LET buf == read_exact(s, size) IN
    IF buf.ok THEN [ok |-> TRUE, value |-> from_be_bytes(buf.value), rest |-> buf.rest]
    ELSE buf

\* What the derive generates for a Vec field of integers of size bytes: one
\* byte of length read from the stream, then that many items.
deserialize_vec(s, size) ==
  LET len == read_exact(s, 1) IN
    IF ~len.ok THEN len
    ELSE LET buf == read_exact(len.rest, len.value[1] * size) IN
           IF ~buf.ok THEN buf
           ELSE [ok |-> TRUE,
                 value |-> [i \in DOMAIN chunks_exact(buf.value, size) |->
                              from_be_bytes(chunks_exact(buf.value, size)[i])],
                 rest |-> buf.rest]

\* Dispatcher::deserialize: the fields in the order of the struct, numroads: u8
\* and then roads: Vec<u16>.
Dispatcher_deserialize(s) ==
  LET numroads == deserialize_int(s, 1) IN
    IF ~numroads.ok THEN numroads
    ELSE LET roads == deserialize_vec(numroads.rest, 2) IN
           IF ~roads.ok THEN roads
           ELSE [ok |-> TRUE,
                 value |-> [opcode |-> OPCODE_Dispatcher,
                            numroads |-> numroads.value, roads |-> roads.value],
                 rest |-> roads.rest]

\* The body of an IAmDispatcher frame as a client writes it: the count, then
\* each road id as a big-endian u16.
RECURSIVE WireRoads(_)
WireRoads(roads) ==
  IF roads = <<>> THEN <<>> ELSE to_be_bytes(Head(roads), 2) \o WireRoads(Tail(roads))

WireDispatcher(roads) == <<Len(roads)>> \o WireRoads(roads)

\* What a client may send after the frame: nothing, a WantHeartbeat frame, or
\* another IAmDispatcher frame.
Rests ==
  { <<>>,
    <<OPCODE_WantHeartBeat>> \o to_be_bytes(10, 4),
    <<OPCODE_Dispatcher>> \o WireDispatcher(<<5>>) }

\* The read loop has read the opcode 0x81 of a frame whose body and what
\* follows it are still unread.
CodecInit ==
  /\ scope = "codec"
  /\ ServerIdle
  /\ ChatIdle
  /\ KvIdle
  /\ wire \in [roads : UNION {[1 .. n -> RoadIds] : n \in 0 .. MaxRoads}, rest : Rests]
  /\ stream = WireDispatcher(wire.roads) \o wire.rest
  /\ decoded = NotYet
  /\ nextOp = NotYet

\* handle_client, opcode Dispatcher: Dispatcher::deserialize(&mut read). An
\* error leaves nothing of the stream to read.
DeserializeDispatcher ==
  /\ decoded = NotYet
  /\ LET r == Dispatcher_deserialize(stream) IN
       /\ decoded' = IF r.ok THEN [ok |-> TRUE, value |-> r.value] ELSE r
       /\ stream' = IF r.ok THEN r.rest ELSE <<>>
  /\ UNCHANGED <<serverVars, chatVars, kvVars, wire, nextOp>>

\* The next turn of the read loop: read.read_u8() for the opcode.
ReadOpcode ==
  /\ decoded # NotYet
  /\ nextOp = NotYet
  /\ LET r == read_exact(stream, 1) IN
       /\ nextOp' = IF r.ok THEN [ok |-> TRUE, value |-> r.value[1]] ELSE r
       /\ stream' = IF r.ok THEN r.rest ELSE <<>>
  /\ UNCHANGED <<serverVars, chatVars, kvVars, wire, decoded>>

CodecNext == DeserializeDispatcher \/ ReadOpcode

SpecCodec == CodecInit /\ [][CodecNext]_vars

(* --------------------- chat.rs: the chat server ------------------------- *)

\* A line is a sequence of characters, each a one-character string.
Letters ==
  {"a", "b", "c", "d", "e", "f", "g", "h", "i", "j", "k", "l", "m",
   "n", "o", "p", "q", "r", "s", "t", "u", "v", "w", "x", "y", "z",
   "A", "B", "C", "D", "E", "F", "G", "H", "I", "J", "K", "L", "M",
   "N", "O", "P", "Q", "R", "S", "T", "U", "V", "W", "X", "Y", "Z"}
Digits == {"0", "1", "2", "3", "4", "5", "6", "7", "8", "9"}
Whitespace == {" ", "\t", "\r", "\n"}

\* str::trim_end, str::trim_start, str::trim.
RECURSIVE trim_end(_)
trim_end(str) ==
  IF str # <<>> /\ str[Len(str)] \in Whitespace
    THEN trim_end(SubSeq(str, 1, Len(str) - 1)) ELSE str

RECURSIVE trim_start(_)
trim_start(str) ==
  IF str # <<>> /\ Head(str) \in Whitespace THEN trim_start(Tail(str)) ELSE str

trim(str) == trim_start(trim_end(str))

\* A check of usernames that lets every line through.
is_valid_always(username) == TRUE

\* USERNAME_RE, ^[a-zA-Z0-9]*$, matches username.
is_valid_username(username) ==
  \A i \in DOMAIN username : username[i] \in Letters \cup Digits

\* What read_line may return in a run: a name, another name, the first name
\* after a blank, a line with a character that is no letter or digit, and an
\* empty line.
RawLines ==
  { <<"a", "\n">>, <<"b", "\r", "\n">>, <<" ", "a", "\n">>, <<"!", "\n">>, <<"\n">> }

\* enum Packet.
NewConnection(addr) == [type |-> "NewConnection", addr |-> addr]
NewMessage(addr, message) == [type |-> "NewMessage", addr |-> addr, message |-> message]
RemoveConnection(addr) == [type |-> "RemoveConnection", addr |-> addr]

\* struct User: shutdown says whether start_server has shut the write half down.
User(username, shutdown) == [username |-> username, shutdown |-> shutdown]

\* What start_server writes.
Prompt == [kind |-> "prompt"]
InvalidNotice == [kind |-> "invalid"]
RoomListing(names) == [kind |-> "listing", names |-> names]
Entered(from, username) == [kind |-> "enter", from |-> from, username |-> username]
ChatLine(from, username, message) ==
  [kind |-> "chat", from |-> from, username |-> username, message |-> message]
Left(from, username) == [kind |-> "leave", from |-> from, username |-> username]

\* self.tx.send: queued while start_server lives, an error afterwards.
ChatSend(m) == IF chatAlive THEN Append(chatChan, m) ELSE chatChan

ChatInit ==
  /\ scope = "chat"
  /\ ServerIdle
  /\ CodecIdle
  /\ ChatIdle
  /\ KvIdle

\* handle_client: split the stream, send NewConnection, arm the guard.
ChatAccept(addr) ==
  /\ chatPc[addr] = "idle"
  /\ chatPc' = [chatPc EXCEPT ![addr] = "loop"]
  /\ chatChan' = ChatSend(NewConnection(addr))
  /\ UNCHANGED <<serverVars, codecVars, kvVars, users, chatAlive, out, lines, rejected>>

RECURSIVE LinesRead(_)
LinesRead(S) ==
  IF S = {} THEN 0
  ELSE LET c == CHOOSE x \in S : TRUE IN Len(lines[c]) + LinesRead(S \ {c})

\* read_line returned a line: its trailing whitespace is cut off and it is
\* sent as NewMessage. If start_server is gone the send fails and the loop
\* ends, which drops the guard (whose send of RemoveConnection fails too).
ChatReadLine(addr) ==
  /\ chatPc[addr] = "loop"
  /\ LinesRead(ChatConns) < MaxLines
  /\ \E raw \in RawLines :
       /\ lines' = [lines EXCEPT ![addr] = Append(@, trim_end(raw))]
       /\ chatChan' = ChatSend(NewMessage(addr, trim_end(raw)))
  /\ chatPc' = IF chatAlive THEN chatPc ELSE [chatPc EXCEPT ![addr] = "done"]
  /\ UNCHANGED <<serverVars, codecVars, kvVars, users, chatAlive, out, rejected>>

\* read_line returned 0 bytes or an error: the loop ends and the guard is
\* dropped, which sends RemoveConnection.
ChatReadEnd(addr) ==
  /\ chatPc[addr] = "loop"
  /\ chatPc' = [chatPc EXCEPT ![addr] = "done"]
  /\ chatChan' = ChatSend(RemoveConnection(addr))
  /\ UNCHANGED <<serverVars, codecVars, kvVars, users, chatAlive, out, lines, rejected>>

ChatImpl_handle_client(addr) ==
  \/ ChatAccept(addr)
  \/ ChatReadLine(addr)
  \/ ChatReadEnd(addr)

\* write_all to the write half of addr fails once start_server has shut it
\* down, and may fail once the client has closed the connection.
MustFail(addr) == users[addr].shutdown
MayFail(addr) == users[addr].shutdown \/ chatPc[addr] = "done"

\* The ways the writes to the connections in T can turn out: the sets of
\* connections whose write fails.
Failures_(T) ==
  {F \in SUBSET T :
     /\ \A t \in T : MustFail(t) => t \in F
     /\ \A t \in F : MayFail(t)}

\* m has been written to every connection of T.
WrittenTo(T, m) == [c \in ChatConns |-> IF c \in T THEN Append(out[c], m) ELSE out[c]]

\* users without the entries of the connections in F.
Without(F) == [c \in DOMAIN users \ F |-> users[c]]

\* unwrap on None: start_server panics, users and the receiver are dropped.
ChatPanic ==
  /\ chatAlive' = FALSE
  /\ users' = <<>>
  /\ chatChan' = <<>>
  /\ UNCHANGED <<out, rejected>>

\* Packet::NewConnection: the prompt is written, whether or not that worked the
\* user is inserted with an empty username.
OnNewConnection ==
  /\ chatAlive
  /\ chatChan # <<>>
  /\ Head(chatChan).type = "NewConnection"
  /\ chatChan' = Tail(chatChan)
  /\ LET addr == Head(chatChan).addr IN
       /\ users' = [c \in DOMAIN users \cup {addr} |->
                      IF c = addr THEN User(<<>>, FALSE) ELSE users[c]]
       /\ \/ out' = WrittenTo({addr}, Prompt)
          \/ chatPc[addr] = "done" /\ out' = out
  /\ UNCHANGED <<serverVars, codecVars, kvVars, chatPc, chatAlive, lines, rejected>>

\* A broadcast that goes to every other user, named or not.
TargetsAnyone(addr, us) == DOMAIN us \ {addr}

\* The users a chat line or an entry announcement of addr is written to:
\* target_addr != &addr && !u.username.is_empty().
Targets(addr, us) == {t \in DOMAIN us : t # addr /\ us[t].username # <<>>}

\* Packet::NewMessage. A connection that is not in users makes the unwrap of
\* the already-named branch panic. A user without a username gets the line
\* taken as its username: rejected (notice, shutdown of the write half, and
\* the user stays in users), or accepted (room listing to the sender, username
\* set, entry announced). A line of a named user is broadcast. A user whose
\* broadcast write fails is removed from users.
OnNewMessage ==
  /\ chatAlive
  /\ chatChan # <<>>
  /\ Head(chatChan).type = "NewMessage"
  /\ LET addr == Head(chatChan).addr
         message == Head(chatChan).message
         trimmed == trim(message)
         usernames == {users[u].username : u \in {x \in DOMAIN users : users[x].username # <<>>}}
     IN
       IF addr \notin DOMAIN users THEN ChatPanic
       ELSE
         /\ chatChan' = Tail(chatChan)
         /\ chatAlive' = chatAlive
         /\ IF users[addr].username = <<>>
              /\ (\/ ~is_valid_username(trimmed)
                  \/ \E u \in DOMAIN users : users[u].username = trimmed)
              THEN /\ users' = [users EXCEPT ![addr].shutdown = TRUE]
                   /\ rejected' = rejected \cup {addr}
                   /\ \/ ~MustFail(addr) /\ out' = WrittenTo({addr}, InvalidNotice)
                      \/ MayFail(addr) /\ out' = out
              ELSE
                LET just_joined == users[addr].username = <<>>
                    named == IF just_joined THEN [users EXCEPT ![addr].username = trimmed]
                             ELSE users
                    m == IF just_joined THEN Entered(addr, trimmed)
                         ELSE ChatLine(addr, users[addr].username, message)
                IN
                  /\ rejected' = rejected
                  /\ \E F \in Failures_(Targets(addr, named)) :
                     \E listed \in IF just_joined
                                     THEN {ok \in BOOLEAN : IF ok THEN ~MustFail(addr)
                                                            ELSE MayFail(addr)}
                                     ELSE {FALSE} :
                       /\ users' = [c \in DOMAIN named \ F |-> named[c]]
                       /\ out' = [c \in ChatConns |->
                                    IF c = addr /\ listed
                                      THEN Append(out[c], RoomListing(usernames))
                                    ELSE IF c \in Targets(addr, named) \ F
                                      THEN Append(out[c], m)
                                    ELSE out[c]]
  /\ UNCHANGED <<serverVars, codecVars, kvVars, chatPc, lines>>

\* Packet::RemoveConnection: users.remove(&addr).unwrap() panics for a
\* connection that is not in users. Otherwise the user is removed and, if it
\* had a username, the other named users are told; failed writes are ignored.
OnRemoveConnection ==
  /\ chatAlive
  /\ chatChan # <<>>
  /\ Head(chatChan).type = "RemoveConnection"
  /\ LET addr == Head(chatChan).addr IN
       IF addr \notin DOMAIN users THEN ChatPanic
       ELSE
         /\ chatChan' = Tail(chatChan)
         /\ chatAlive' = chatAlive
         /\ rejected' = rejected
         /\ users' = Without({addr})
         /\ LET T == IF users[addr].username = <<>> THEN {}
                     ELSE {t \in DOMAIN users \ {addr} : users[t].username # <<>>}
            IN \E F \in Failures_(T) :
                 out' = WrittenTo(T \ F, Left(addr, users[addr].username))
  /\ UNCHANGED <<serverVars, codecVars, kvVars, chatPc, lines>>

start_server == OnNewConnection \/ OnNewMessage \/ OnRemoveConnection

ChatNext ==
  \/ \E addr \in ChatConns : ChatImpl_handle_client(addr)
  \/ start_server

SpecChat == ChatInit /\ [][ChatNext]_vars

(* ------------------ unusual.rs: the key-value service ------------------- *)

\* A datagram is a sequence of characters, each a one-character string, or of
\* bytes that are no UTF-8 text, for which BadByte stands.
BadByte == "0xFF"

Str_version == <<"v", "e", "r", "s", "i", "o", "n">>

\* const VERSION, as the characters that are sent.
VERSION == <<"Ken's Key-Value Store 1.0", "\n">>

AsciiWhitespace == {" ", "\t", "\n", "\f", "\r"}

\* std::str::from_utf8(&buf[..n]) is Ok.
from_utf8_ok(buf) == \A i \in DOMAIN buf : buf[i] # BadByte

\* message.trim_end_matches(|c: char| c.is_ascii_whitespace()).
RECURSIVE trim_end_matches(_)
trim_end_matches(str) ==
  IF str # <<>> /\ str[Len(str)] \in AsciiWhitespace
    THEN trim_end_matches(SubSeq(str, 1, Len(str) - 1)) ELSE str

\* message.split_once("="): the parts before and after the first '=', if any.
split_once(str) ==
  LET at == {i \in DOMAIN str : str[i] = "="} IN
    IF at = {} THEN [some |-> FALSE]
    ELSE LET i == CHOOSE x \in at : \A y \in at : x <= y IN
           [some |-> TRUE, key |-> SubSeq(str, 1, i - 1),
            value |-> SubSeq(str, i + 1, Len(str))]

\* enum Message.
Insert(addr, key, value) == [type |-> "Insert", addr |-> addr, key |-> key, value |-> value]
Retrieve(addr, key) == [type |-> "Retrieve", addr |-> addr, key |-> key]

\* What run_unusual sends for a datagram that is valid UTF-8.
MessageFor(addr, buf) ==
  LET message == trim_end_matches(buf)
      parts == split_once(message)
  IN IF parts.some THEN Insert(addr, parts.key, parts.value)
     ELSE Retrieve(addr, message)

\* The datagrams of a run: inserts of one key, one with a newline at its end
\* and one with a second '=', a retrieve of it, a retrieve and an insert of
\* "version", and a datagram that is no UTF-8.
Datagrams ==
  { <<"a", "=", "1">>, <<"a", "=", "2", "\n">>, <<"a", "=", "=">>, <<"a">>,
    Str_version, Str_version \o <<"=", "1">>, <<BadByte>> }

KvInit ==
  /\ scope = "kv"
  /\ ServerIdle
  /\ CodecIdle
  /\ ChatIdle
  /\ KvIdle

\* run_unusual, one turn of its loop: recv_from returns a datagram of a client;
\* if it is UTF-8 its message goes onto the channel.
run_unusual ==
  /\ Len(received) < MaxDatagrams
  /\ \E addr \in KvClients, buf \in Datagrams :
       /\ received' = Append(received, [addr |-> addr, buf |-> buf])
       /\ kvChan' = IF from_utf8_ok(buf) THEN Append(kvChan, MessageFor(addr, buf))
                    ELSE kvChan
  /\ UNCHANGED <<serverVars, codecVars, chatVars, DATA, kvDone, replies>>

\* An insert that stores every key.
InsertAlways(data, key, value) ==
  [k \in DOMAIN data \cup {key} |-> IF k = key THEN value ELSE data[k]]

\* An insert that keeps the value a key already has.
InsertIfAbsent(data, key, value) ==
  IF key = Str_version \/ key \in DOMAIN data THEN data
  ELSE [k \in DOMAIN data \cup {key} |-> IF k = key THEN value ELSE data[k]]

\* Message::Insert: nothing for the key "version", data.insert(key, value)
\* for any other.
InsertInto(data, key, value) ==
  IF key = Str_version THEN data
  ELSE [k \in DOMAIN data \cup {key} |-> IF k = key THEN value ELSE data[k]]

OnInsert ==
  /\ kvChan # <<>>
  /\ Head(kvChan).type = "Insert"
  /\ kvChan' = Tail(kvChan)
  /\ kvDone' = kvDone + 1
  /\ DATA' = InsertInto(DATA, Head(kvChan).key, Head(kvChan).value)
  /\ UNCHANGED <<serverVars, codecVars, chatVars, received, replies>>

\* The reply to a retrieve of key: VERSION for "version", key=value and a
\* newline for a key of the store, none for any other key.
ReplyTo(data, key) ==
  IF key = Str_version THEN <<VERSION>>
  ELSE IF key \in DOMAIN data THEN <<key \o <<"=">> \o data[key] \o <<"\n">>>>
  ELSE <<>>

\* Message::Retrieve: the reply, if any, is sent to the address the request
\* came from (send_to is taken to succeed). req notes which message of the
\* channel the reply answers.
OnRetrieve ==
  /\ kvChan # <<>>
  /\ Head(kvChan).type = "Retrieve"
  /\ kvChan' = Tail(kvChan)
  /\ kvDone' = kvDone + 1
  /\ replies' = replies \o
       [i \in DOMAIN ReplyTo(DATA, Head(kvChan).key) |->
          [to |-> Head(kvChan).addr, data |-> ReplyTo(DATA, Head(kvChan).key)[i],
           req |-> kvDone + 1]]
  /\ UNCHANGED <<serverVars, codecVars, chatVars, DATA, received>>

unusual_run_server == OnInsert \/ OnRetrieve

KvNext == run_unusual \/ unusual_run_server

SpecKv == KvInit /\ [][KvNext]_vars

(* ---------------------- what a client can observe ----------------------- *)

Range(s) == {s[i] : i \in DOMAIN s}

\* The write half of addr is still owned by someone: it travels in a queued
\* ClientConnected, it sits in sockets, or a heartbeat task that has not ended
\* holds a clone of it. (Dropped when the last of these lets go of it.)
WriteHalfHeld(addr) ==
  \/ addr \in sockets
  \/ \E i \in DOMAIN chan : chan[i] = ClientConnected(addr)
  \/ hbRunning[addr] > 0

\* The server has closed the connection: the read loop has ended, which drops
\* the read half, and the write half has been dropped.
ConnClosed(addr) == pc[addr] = "done" /\ ~WriteHalfHeld(addr)

ErrorSent(addr) == \E f \in Range(written[addr]) : f.opcode = OPCODE_Error

\* Nothing is left on the channel for run_server to process.
Drained == chan = <<>>

\* No code of the server writes to a socket: no Error, Ticket or Heartbeat frame
\* ever reaches a client.
NothingWritten == \A c \in Conns : written[c] = <<>>

(* ------------------- the role rules of the protocol --------------------- *)

IsIdent(f) == IsPacket(f, OPCODE_Camera) \/ IsPacket(f, OPCODE_Dispatcher)

\* The positions of the identification frames (IAmCamera, IAmDispatcher) and of
\* the WantHeartbeat frames among what a connection sent.
Idents(h) == {k \in DOMAIN h : IsIdent(h[k])}
Wants(h) == {k \in DOMAIN h : IsPacket(h[k], OPCODE_WantHeartBeat)}

Min(S) == CHOOSE x \in S : \A y \in S : x <= y

\* The k-th frame of h breaks a role rule: a second identification, a Plate
\* with no IAmCamera before it, or a second WantHeartbeat.
ViolationAt(h, k) ==
  \/ IsIdent(h[k]) /\ \E j \in Idents(h) : j < k
  \/ IsPacket(h[k], OPCODE_Plate)
       /\ ~\E j \in DOMAIN h : j < k /\ IsPacket(h[j], OPCODE_Camera)
  \/ IsPacket(h[k], OPCODE_WantHeartBeat) /\ \E j \in Wants(h) : j < k

Violated(h) == \E k \in DOMAIN h : ViolationAt(h, k)

(* ------------------- sightings and tickets, as claimed ------------------ *)

\* Where the k-th frame of connection c stands in the order of arrival.
ArrivalIndex(c, k) ==
  CHOOSE i \in DOMAIN arrivals :
    arrivals[i] = c /\ Cardinality({j \in 1 .. i : arrivals[j] = c}) = k

\* The sightings the cameras have reported: every Plate frame of a connection
\* that sent IAmCamera before it, with the road, mile and limit of that camera.
Sightings ==
  UNION {
    {LET cam == hist[c][Min({j \in 1 .. k - 1 : IsPacket(hist[c][j], OPCODE_Camera)})] IN
       [plate |-> hist[c][k].plate, timestamp |-> hist[c][k].timestamp,
        road |-> cam.road, mile |-> cam.mile, limit |-> cam.limit,
        at |-> ArrivalIndex(c, k)]
       : k \in {i \in DOMAIN hist[c] :
                  /\ IsPacket(hist[c][i], OPCODE_Plate)
                  /\ \E j \in 1 .. i - 1 : IsPacket(hist[c][j], OPCODE_Camera)}}
    : c \in Conns}

\* Two sightings of one plate on one road, the earlier one first.
Pairs ==
  {p \in Sightings \X Sightings :
     /\ p[1].plate = p[2].plate
     /\ p[1].road = p[2].road
     /\ p[1].timestamp < p[2].timestamp}

Abs(x) == IF x < 0 THEN -x ELSE x

\* round(|mile2 - mile1| / (ts2 - ts1) * 3600 * 100), halves rounded up.
Speed100(mile1, ts1, mile2, ts2) ==
  (2 * Abs(mile2 - mile1) * 360000 + (ts2 - ts1)) \div (2 * (ts2 - ts1))

SpeedOf(p) == Speed100(p[1].mile, p[1].timestamp, p[2].mile, p[2].timestamp)

\* The average speed is more than 0.5 mph above the limit.
Speeding(p) == SpeedOf(p) > p[1].limit * 100 + 50

TicketOf(p) ==
  TicketPacket(p[1].plate, p[1].road, p[1].mile, p[1].timestamp,
               p[2].mile, p[2].timestamp, SpeedOf(p))

\* When the pair was complete: the arrival of the later of its two Plate frames.
IssuedAt(p) == IF p[1].at > p[2].at THEN p[1].at ELSE p[2].at

\* The positions in hist[d] of the IAmDispatcher frames that list road.
DispatcherFrames(d, road) ==
  {k \in DOMAIN hist[d] :
     IsPacket(hist[d][k], OPCODE_Dispatcher) /\ road \in Range(hist[d][k].roads)}

\* The connections that have sent IAmDispatcher for road and are still connected.
LiveDispatchers(road) ==
  {d \in Conns : pc[d] = "loop" /\ DispatcherFrames(d, road) # {}}

\* When d registered for road: the arrival of its first IAmDispatcher listing it.
RegisteredAt(d, road) == ArrivalIndex(d, Min(DispatcherFrames(d, road)))

TicketsWritten(d) == {f \in Range(written[d]) : f.opcode = OPCODE_Ticket}

Positions(seq, x) == {i \in DOMAIN seq : seq[i] = x}

(* ------------------------------ claims ---------------------------------- *)

\* C2: with a dispatcher connected for the road and every message processed,
\* the ticket of a pair of sightings of one plate on one road has been written
\* exactly when the pair's average speed is more than 0.5 mph over the limit:
\* 1 mile in 50 s under limit 60 gives (ABC, 5, 0, 0, 1, 50, 7200), 1 mile in
\* 60 s gives none.
C2_TicketExactlyWhenSpeeding ==
  Drained =>
    \A p \in Pairs :
      LiveDispatchers(p[1].road) # {}
      => (Speeding(p) <=> \E d \in Conns : TicketOf(p) \in TicketsWritten(d))

\* C3: the ticket of a speeding pair carries the earlier sighting as (mile1,
\* timestamp1), the later one as (mile2, timestamp2), whichever arrived first,
\* and the rounded speed in hundredths of mph, which fits the u16 speed field.
C3_TicketSpeedRounded ==
  Drained =>
    \A p \in Pairs :
      (Speeding(p) /\ LiveDispatchers(p[1].road) # {})
      => \E d \in Conns : \E t \in TicketsWritten(d) :
           /\ t.plate = p[1].plate /\ t.road = p[1].road
           /\ t.mile1 = p[1].mile /\ t.timestamp1 = p[1].timestamp
           /\ t.mile2 = p[2].mile /\ t.timestamp2 = p[2].timestamp
           /\ t.timestamp1 < t.timestamp2
           /\ t.speed = Speed100(t.mile1, t.timestamp1, t.mile2, t.timestamp2)
           /\ t.speed < U16

\* C4: when d is the first connection to register as dispatcher for a road and
\* is still connected, then, once its IAmDispatcher is processed, every ticket
\* of a speeding pair that was complete before d registered has been written to
\* d exactly once, in the order the tickets were issued.
C4_PendingDeliveredOnFirstRegistration ==
  Drained =>
    \A d \in Conns : \A road \in UNION {Range(f.roads) : f \in FramesOf(OPCODE_Dispatcher)} :
      (/\ d \in LiveDispatchers(road)
       /\ \A e \in Conns \ {d} : DispatcherFrames(e, road) = {})
      => LET queued == {p \in Pairs : /\ Speeding(p)
                                      /\ p[1].road = road
                                      /\ IssuedAt(p) < RegisteredAt(d, road)} IN
           /\ \A p \in queued : Cardinality(Positions(written[d], TicketOf(p))) = 1
           /\ \A p, q \in queued :
                IssuedAt(p) < IssuedAt(q)
                => \A i \in Positions(written[d], TicketOf(p)) :
                     \A j \in Positions(written[d], TicketOf(q)) : i < j

\* C5: a Ticket frame is only ever written to a connection that registered as
\* dispatcher for the ticket's road, and to no second connection; and the ticket
\* of a speeding pair that was complete while a dispatcher for its road was
\* registered (and still is connected) has been written to exactly one of them.
C5_TicketToExactlyOneRegisteredDispatcher ==
  Drained =>
    /\ \A d \in Conns : \A t \in TicketsWritten(d) :
         /\ DispatcherFrames(d, t.road) # {}
         /\ Cardinality(Positions(written[d], t)) = 1
         /\ \A e \in Conns \ {d} : t \notin TicketsWritten(e)
    /\ \A p \in Pairs :
         LET registered == {d \in LiveDispatchers(p[1].road) :
                              RegisteredAt(d, p[1].road) < IssuedAt(p)} IN
           (Speeding(p) /\ registered # {})
           => Cardinality({d \in registered : TicketOf(p) \in TicketsWritten(d)}) = 1

\* C6: a Plate frame from a connection that sent no IAmCamera before it is
\* answered with an Error frame and the connection is closed, as observed once
\* the channel is drained. (The code keeps no sightings, so "records no
\* sighting" has nothing to be checked on.)
C6_PlateFromNonCameraRejected ==
  \A c \in Conns :
    \A k \in DOMAIN hist[c] :
      (/\ IsPacket(hist[c][k], OPCODE_Plate)
       /\ ~\E j \in 1 .. k - 1 : IsPacket(hist[c][j], OPCODE_Camera)
       /\ Drained)
      => ErrorSent(c) /\ ConnClosed(c)

\* C7: once a connection has sent two identification frames and the Dispatch
\* Core has processed them, the connection has been sent an Error frame and is
\* closed, and what the registries hold for it is at most what its first
\* identification frame registered.
C7_SecondIdentificationRejected ==
  \A c \in Conns :
    (Cardinality(Idents(hist[c])) >= 2 /\ Drained /\ coreAlive)
    => LET first == hist[c][Min(Idents(hist[c]))] IN
         /\ ErrorSent(c)
         /\ ConnClosed(c)
         /\ cameras[c] \in {NoPacket, first}
         /\ dispatchers[c] \in {NoPacket, first}

\* C8: once a connection has sent two WantHeartbeat frames and the Dispatch
\* Core has processed them, the connection has been sent an Error frame and is
\* closed, and at most one heartbeat task was spawned for it.
C8_SecondWantHeartbeatRejected ==
  \A c \in Conns :
    (Cardinality(Wants(hist[c])) >= 2 /\ Drained /\ coreAlive)
    => ErrorSent(c) /\ ConnClosed(c) /\ hbSpawned[c] <= 1

\* C9: after a connection has broken a role rule, no step puts a further
\* Plate, IAmCamera, IAmDispatcher or WantHeartBeat message of that connection
\* on the channel to the Dispatch Core.
C9_NoForwardAfterViolation ==
  [][\A c \in Conns :
       Violated(hist[c])
       => ~(/\ Len(chan') = Len(chan) + 1
            /\ chan'[Len(chan')].addr = c
            /\ chan'[Len(chan')].type
                 \in {"Plate", "IAmCamera", "IAmDispatcher", "WantHeartBeat"})]_vars

\* C10: once a connection has sent a byte that is no client opcode and the
\* channel is drained, the connection has been sent an Error frame and is closed.
C10_UnknownOpcodeErrorThenClose ==
  \A c \in Conns :
    (/\ hist[c] # <<>>
     /\ hist[c][Len(hist[c])] \in {Unknown(n) : n \in OtherOpcodes}
     /\ Drained)
    => ErrorSent(c) /\ ConnClosed(c)

(* ------------------- decode failures and connection roles --------------- *)

\* The positions in h of the frames whose fields could not be decoded.
Failures(h) == {k \in DOMAIN h : h[k] \in {DeserializeFailed(n) : n \in ClientOpcodes}}

\* C11: a frame whose fields cannot be decoded is the last thing read from its
\* connection: nothing is written to the connection, the read loop ends, and
\* once the channel is drained the connection is closed.
C11_DecodeFailureCloses ==
  \A c \in Conns :
    \A k \in Failures(hist[c]) :
      /\ k = Len(hist[c])
      /\ written[c] = <<>>
      /\ Drained => ConnClosed(c)

\* C12: the role of a connection is fixed once set: no step leaves a
\* connection registered as camera and as dispatcher at once, a registered
\* camera stays the camera it is (same road, mile and limit) until its entry is
\* removed and never gets a dispatcher entry, and a registered dispatcher stays
\* the dispatcher it is until its entry is removed and never gets a camera entry.
C12_RoleFixedOnceSet ==
  [][\A c \in Conns :
       /\ ~(cameras'[c] # NoPacket /\ dispatchers'[c] # NoPacket)
       /\ cameras[c] # NoPacket
            => cameras'[c] \in {cameras[c], NoPacket} /\ dispatchers'[c] = NoPacket
       /\ dispatchers[c] # NoPacket
            => dispatchers'[c] \in {dispatchers[c], NoPacket} /\ cameras'[c] = NoPacket]_vars

(* --------------------------- connection teardown ------------------------ *)

\* The read loop of addr ended on a read error, so that ClientDisconnected(addr)
\* was sent, and that message is no longer waiting on the channel.
TornDown(addr) ==
  /\ pc[addr] = "done"
  /\ hist[addr] = <<>> \/ hist[addr][Len(hist[addr])] \notin {Unknown(n) : n \in OtherOpcodes}
  /\ ClientDisconnected(addr) \notin Range(chan)

\* C13: once the disconnect of a connection is processed the connection has
\* no dispatcher registration and no outbound socket, and the sightings it
\* reported still count: when the channel is drained, every speeding pair whose
\* earlier sighting it reported, on a road with a connected dispatcher, has had
\* its ticket written to some connection.
C13_DisconnectKeepsSightings ==
  \A c \in Conns :
    TornDown(c)
    => /\ c \notin sockets
       /\ dispatchers[c] = NoPacket
       /\ Drained
            => \A p \in Pairs :
                 (/\ arrivals[p[1].at] = c
                  /\ Speeding(p)
                  /\ LiveDispatchers(p[1].road) # {})
                 => \E d \in Conns : TicketOf(p) \in Range(written[d])

\* C14: whatever ended the read loop of a connection, once the channel is
\* drained and run_server is running the connection has no entry in sockets,
\* cameras or dispatchers.
C14_EveryExitDeregisters ==
  \A c \in Conns :
    (pc[c] = "done" /\ Drained /\ coreAlive)
    => c \notin sockets /\ cameras[c] = NoPacket /\ dispatchers[c] = NoPacket

(* ------------------------ isolation and ordering ------------------------ *)

\* C15: failures of one connection are isolated: no step stops run_server, and
\* a step changes what sockets, cameras or dispatchers hold for a connection
\* only when it processes a message of that very connection.
C15_FailuresIsolated ==
  [][/\ coreAlive => coreAlive'
     /\ \A c \in Conns :
          (\/ cameras'[c] # cameras[c]
           \/ dispatchers'[c] # dispatchers[c]
           \/ (c \in sockets') # (c \in sockets))
          => chan # <<>> /\ Head(chan).addr = c]_vars

\* The message handle_client sends for a packet it has deserialized.
MessageOf(addr, packet) ==
  [type |-> CASE packet.opcode = OPCODE_Plate -> "Plate"
              [] packet.opcode = OPCODE_Camera -> "IAmCamera"
              [] packet.opcode = OPCODE_Dispatcher -> "IAmDispatcher"
              [] packet.opcode = OPCODE_WantHeartBeat -> "WantHeartBeat",
   addr |-> addr, packet |-> packet]

RECURSIVE MessagesOf(_, _)
MessagesOf(addr, h) ==
  IF h = <<>> THEN <<>>
  ELSE IF "err" \in DOMAIN Head(h) THEN MessagesOf(addr, Tail(h))
  ELSE <<MessageOf(addr, Head(h))>> \o MessagesOf(addr, Tail(h))

\* The events connection addr has sent to run_server so far, in the order sent:
\* ClientConnected, one message per packet read, and ClientDisconnected if the
\* loop ended on a read error.
Sent(addr) ==
  IF pc[addr] = "idle" THEN <<>>
  ELSE <<ClientConnected(addr)>>
       \o MessagesOf(addr, hist[addr])
       \o (IF /\ pc[addr] = "done"
              /\ hist[addr] = <<>>
                   \/ hist[addr][Len(hist[addr])] \notin {Unknown(n) : n \in OtherOpcodes}
             THEN <<ClientDisconnected(addr)>> ELSE <<>>)

\* The events of addr that wait on the channel, in the order run_server will
\* take them.
Queued(addr) == SelectSeq(chan, LAMBDA m : m.addr = addr)

IsSuffix(s, t) ==
  Len(s) <= Len(t) /\ s = SubSeq(t, Len(t) - Len(s) + 1, Len(t))

\* C16: at every moment the events of a connection that run_server has yet to
\* take are the tail of what the connection sent, in the order sent: run_server
\* has processed a prefix of them, so it processes them in the order sent, the
\* connect event first and the disconnect event last.
C16_EventsInOrderSent == \A c \in Conns : IsSuffix(Queued(c), Sent(c))

\* run_server has processed two events of a connection, a third waits behind
\* an event of another connection, and the connection has gone on to disconnect.
C16_Witness ==
  \E c \in Conns :
    /\ coreAlive
    /\ Len(Sent(c)) - Len(Queued(c)) >= 2
    /\ Len(Queued(c)) >= 2
    /\ Queued(c)[Len(Queued(c))] = ClientDisconnected(c)
    /\ \E i \in DOMAIN chan : chan[i].addr # c /\ i < Len(chan)

(* ------------------------------ heartbeats ------------------------------ *)

\* The Heartbeat frames written to addr so far.
HeartbeatsTo(addr) ==
  Cardinality({i \in DOMAIN written[addr] : written[addr][i] = HeartBeatPacket})

\* The intervals of the WantHeartbeat frames addr has sent.
Intervals(addr) ==
  {hist[addr][k].interval : k \in Wants(hist[addr])}

\* run_server has processed a WantHeartbeat of addr with an interval above 0:
\* one was sent, none waits on the channel, and the task was spawned.
Armed(addr) ==
  /\ \E n \in Intervals(addr) : n > 0
  /\ ~\E m \in Range(chan) : m.type = "WantHeartBeat" /\ m.addr = addr
  /\ hbSpawned[addr] > 0

\* The connection is up: its read loop runs and run_server holds its socket.
Up(addr) == pc[addr] = "loop" /\ addr \in sockets

\* C17: once a WantHeartbeat with an interval above 0 has been processed for a
\* connection, a Heartbeat frame is written to it, unless the connection goes
\* down first.
C17_HeartbeatsKeepComing ==
  \A c \in Conns : Armed(c) ~> (HeartbeatsTo(c) > 0 \/ ~Up(c))

\* C18: a connection that has sent no WantHeartbeat, or none but with interval
\* 0, has been written no Heartbeat frame.
C18_NoHeartbeatUnlessAsked ==
  \A c \in Conns : (\A n \in Intervals(c) : n = 0) => HeartbeatsTo(c) = 0

\* A connection sent WantHeartbeat with interval 0 and nothing else of the
\* kind, run_server spawned its heartbeat task, and the task has run to its end
\* while the connection is up.
C18_Witness ==
  \E c \in Conns :
    /\ Intervals(c) = {0}
    /\ hbSpawned[c] > 0
    /\ hbRunning[c] = 0
    /\ Up(c)

\* C19: once the disconnect of a connection is processed, no heartbeat task of
\* it is alive and nobody holds its write half any more.
C19_TeardownCancelsHeartbeat ==
  \A c \in Conns : TornDown(c) => hbRunning[c] = 0 /\ ~WriteHalfHeld(c)

(* -------------------------------- codec --------------------------------- *)

\* C20: deserializing the body of an IAmDispatcher frame (a count byte n and n
\* big-endian u16 road ids) yields numroads = n and those n roads in order and
\* consumes those 1 + 2n bytes and no more, so that the byte read next as an
\* opcode is the first byte of what follows the frame.
C20_DispatcherDecodesWire ==
  /\ decoded # NotYet
       => /\ decoded = [ok |-> TRUE, value |-> Dispatcher(wire.roads)]
          /\ nextOp = NotYet => stream = wire.rest
  /\ (nextOp # NotYet /\ wire.rest # <<>>)
       => nextOp = [ok |-> TRUE, value |-> wire.rest[1]]

(* ------------------------ registries and sockets ------------------------ *)

\* C25: every connection with an entry in cameras or in dispatchers is in
\* sockets.
C25_RegisteredHaveSocket ==
  \A c \in Conns :
    (cameras[c] # NoPacket \/ dispatchers[c] # NoPacket) => c \in sockets

\* One connection is registered and has its socket, while another one had
\* identified itself too and its disconnect has been processed.
C25_Witness ==
  /\ coreAlive
  /\ \E c, d \in Conns :
       /\ c # d
       /\ cameras[c] # NoPacket \/ dispatchers[c] # NoPacket
       /\ c \in sockets
       /\ Idents(hist[d]) # {}
       /\ TornDown(d)
       /\ d \notin sockets

(* ------------------------------ chat server ----------------------------- *)

\* C21: start_server never panics: it is running, and the connection of the
\* NewMessage or RemoveConnection it is about to process is in users.
C21_SenderInUsers ==
  /\ chatAlive
  /\ (chatChan # <<>> /\ Head(chatChan).type \in {"NewMessage", "RemoveConnection"})
       => Head(chatChan).addr \in DOMAIN users

\* The announcements and chat lines that come from a connection: written to
\* the room on its behalf.
FromConn(c) ==
  UNION {{out[d][i] : i \in {j \in DOMAIN out[d] :
                              /\ out[d][j].kind \in {"enter", "chat", "leave"}
                              /\ out[d][j].from = c}}
         : d \in ChatConns}

\* C22: a connection that had a username line rejected has no username, and
\* nothing was announced or broadcast to the room on its behalf.
C22_RejectedNeverJoins ==
  \A c \in rejected :
    /\ c \in DOMAIN users => users[c].username = <<>>
    /\ FromConn(c) = {}

\* C23: after every step, every username in users is made of ASCII letters and
\* digits only, no two users have the same non-empty username, and a user that
\* had a username before the step still has that very username.
C23_UsernamesUniqueValidFixed ==
  [][\A c \in DOMAIN users' :
       /\ \A i \in DOMAIN users'[c].username :
            users'[c].username[i] \in Letters \cup Digits
       /\ users'[c].username # <<>>
            => \A d \in DOMAIN users' \ {c} : users'[d].username # users'[c].username
       /\ (c \in DOMAIN users /\ users[c].username # <<>>)
            => users'[c].username = users[c].username]_vars

\* Two users have a username each, and one of them has gone on to send a
\* chat line, which start_server has processed.
C23_Witness ==
  /\ chatAlive
  /\ chatChan = <<>>
  /\ \E c, d \in DOMAIN users :
       /\ c # d
       /\ users[c].username # <<>>
       /\ users[d].username # <<>>
       /\ c \notin rejected
       /\ Len(lines[c]) >= 2

\* C24: whenever a step writes a chat line, an entry announcement or a leave
\* announcement to a connection, that connection was a user with a username
\* before the step and is not the connection the line comes from; what is
\* written to any other connection is the prompt, the room listing or the
\* invalid-username notice.
C24_RoomLinesOnlyToOtherNamedUsers ==
  [][\A c \in ChatConns :
       Len(out'[c]) > Len(out[c])
       => LET e == out'[c][Len(out'[c])] IN
            IF c \in DOMAIN users /\ users[c].username # <<>>
              THEN e.kind \in {"enter", "chat", "leave"} /\ e.from # c
              ELSE e.kind \in {"prompt", "listing", "invalid"}]_vars

\* A user with a username has sent a chat line, which start_server has
\* processed, and has been told of the entry of another user; that other user
\* has been written nothing but the prompt and the room listing.
C24_Witness ==
  /\ chatAlive
  /\ chatChan = <<>>
  /\ \E c, d \in DOMAIN users :
       /\ c # d
       /\ c \notin rejected
       /\ Len(lines[c]) >= 2
       /\ \E i \in DOMAIN out[c] : out[c][i] = Entered(d, users[d].username)
       /\ \A i \in DOMAIN out[d] : out[d][i].kind \in {"prompt", "listing"}
       /\ \E i \in DOMAIN out[d] : out[d][i].kind = "listing"

(* --------------------------- key-value service -------------------------- *)

\* The requests of a run in the order received: the messages of the datagrams
\* that were UTF-8.
RECURSIVE RequestsOf(_)
RequestsOf(rs) ==
  IF rs = <<>> THEN <<>>
  ELSE (IF from_utf8_ok(Head(rs).buf)
          THEN <<MessageFor(Head(rs).addr, Head(rs).buf)>> ELSE <<>>)
       \o RequestsOf(Tail(rs))

Requests == RequestsOf(received)

\* C26: a step that processes an insert of the key "version" leaves the store
\* as it was, and a step that processes a retrieve of "version" sends the
\* fixed VERSION text to the client that asked, whatever the store holds.
C26_VersionKeyIsFixed ==
  [][kvDone' = kvDone + 1
     => LET m == Head(kvChan) IN
          /\ (m.type = "Insert" /\ m.key = Str_version) => DATA' = DATA
          /\ (m.type = "Retrieve" /\ m.key = Str_version)
               => /\ Len(replies') = Len(replies) + 1
                  /\ replies'[Len(replies')].to = m.addr
                  /\ replies'[Len(replies')].data = VERSION]_vars

\* The store holds a key, an insert of "version" has been processed, and a
\* later retrieve of "version" has been answered.
C26_Witness ==
  /\ DATA # <<>>
  /\ \E r \in Range(replies) :
       /\ r.data = VERSION
       /\ \E j \in 1 .. r.req - 1 :
            Requests[j].type = "Insert" /\ Requests[j].key = Str_version

\* The inserts of key k among the requests before the i-th.
InsertsBefore(i, k) ==
  {j \in 1 .. i - 1 : Requests[j].type = "Insert" /\ Requests[j].key = k}

\* The latest of a non-empty set of request numbers.
Latest(S) == CHOOSE j \in S : \A h \in S : h <= j

\* The replies the service sent while it processed the i-th request.
RepliesTo(i) == {n \in DOMAIN replies : replies[n].req = i}

\* The i-th request, a retrieve of k, was answered as the most recent earlier
\* insert of k says: one datagram k=v and a newline to the client that asked,
\* and nothing when no insert of k came before it.
AnsweredFromInserts(i) ==
  LET k == Requests[i].key
      ins == InsertsBefore(i, k)
  IN IF ins = {} THEN RepliesTo(i) = {}
     ELSE \E n \in DOMAIN replies :
            /\ RepliesTo(i) = {n}
            /\ replies[n].to = Requests[i].addr
            /\ replies[n].data = k \o <<"=">> \o Requests[Latest(ins)].value \o <<"\n">>

\* Replies leave in the order of the requests they answer, and only retrieves
\* that were processed are answered.
RepliesInOrder ==
  /\ \A n \in DOMAIN replies :
       replies[n].req \in 1 .. kvDone /\ Requests[replies[n].req].type = "Retrieve"
  /\ \A n, m \in DOMAIN replies : n < m => replies[n].req < replies[m].req

\* C27, as stated: every processed retrieve of every key k is answered from
\* the most recent earlier insert of k, and not at all when k was never
\* inserted.
C27_AsStated ==
  /\ RepliesInOrder
  /\ \A i \in 1 .. kvDone : Requests[i].type = "Retrieve" => AnsweredFromInserts(i)

\* C27, amended: the same for every key other than "version", where a request
\* is a UTF-8 datagram with the ASCII whitespace at its end removed and the
\* reply is k=v followed by a newline.
C27_RetrieveAnswersLatestInsert ==
  /\ RepliesInOrder
  /\ \A i \in 1 .. kvDone :
       (Requests[i].type = "Retrieve" /\ Requests[i].key # Str_version)
         => AnsweredFromInserts(i)

\* A retrieve was answered after two inserts of its key with different values,
\* the later one by another client than the one that asked.
C27_Witness ==
  \E i \in 1 .. kvDone :
    /\ Requests[i].type = "Retrieve"
    /\ Requests[i].key # Str_version
    /\ RepliesTo(i) # {}
    /\ \E j, h \in InsertsBefore(i, Requests[i].key) :
         /\ j < h
         /\ Requests[j].value # Requests[h].value
         /\ Requests[h].addr # Requests[i].addr

=============================================================================
